---- MODULE Spec2Model ----
(***************************************************************************)
(* Quadtree contour extraction over a min/max mipmap pyramid               *)
(* (src/index.js): pyramid construction, the adaptive quadtree walk,       *)
(* segment stitching and box-filter smoothing.                             *)
(*                                                                         *)
(* Conventions.  JavaScript arrays are functions over 0..n-1.  Level l of  *)
(* this.levels (0 = coarsest) is levels[l+1] here.  Samples are small      *)
(* integers (exactly representable in a Float32Array); NaN, +Infinity and  *)
(* -Infinity are the three sentinels below, compared as JavaScript         *)
(* compares them.                                                          *)
(***************************************************************************)
EXTENDS Integers, Sequences, FiniteSets, TLC

VARIABLES
  pc,             \* "new" before the constructor ran, then "ready", "stitch", "smooth"
  raster,         \* the caller's sample buffer, row-major
  width, height,  \* the caller's dimensions
  levels,         \* this.levels
  args,           \* arguments of the last evaluateContour / contour call
  events,         \* callbacks made by the last evaluateContour call, in order
  segments,       \* contour(): the sorted segment list
  idx,            \* contour(): number of segments the forEach has processed
  heap,           \* contour(): the fragment arrays, by identity
  fragmentStart,  \* contour(): Map key -> fragment, in insertion order
  fragmentEnd,    \* contour(): Map key -> fragment, in insertion order
  rings,          \* contour(): closed rings (fragment identities)
  lines,          \* contour(): lines kept by the filter, as smoothed so far
  closed,         \* contour(): for each kept line, whether the stitcher closed it
  loops,          \* smooth(): isLoop of each kept line
  cycle,          \* smooth(): cycles applied so far
  memo            \* result of the first completed contour() call, with its arguments

vars == <<pc, raster, width, height, levels, args, events, segments, idx, heap,
          fragmentStart, fragmentEnd, rings, lines, closed, loops, cycle, memo>>

-----------------------------------------------------------------------------
(* Bounds of the model *)

MaxSide == 3        \* rasters with NaN: width, height in 1..MaxSide
MaxLog == 2         \* square rasters without NaN: side 2^k, k in 0..MaxLog
MaxSample == 1      \* finite samples are 0..MaxSample
MaxKernel == 2      \* smoothKernelWidth in 1..MaxKernel
MaxCycles == 2      \* smoothCycles in 0..MaxCycles
MaxDepthOpt == 2    \* maxMipmapLevel undefined or in 0..MaxDepthOpt
MaxMinPoints == 6   \* minPoints is 0 or MaxMinPoints

-----------------------------------------------------------------------------
(* Floating point values *)

NaN == 9999
PosInf == 1000
NegInf == -1000

Samples == 0..MaxSample

\* Number.isFinite
isFinite(v) == v # NaN /\ v # PosInf /\ v # NegInf

\* JavaScript a < b and a >= b: false as soon as one side is NaN
Lt(a, b) == a # NaN /\ b # NaN /\ a < b
Ge(a, b) == a # NaN /\ b # NaN /\ a >= b

OUTSIDE == 0
ABOVE == 1
BELOW == 2
WITHIN == 3

Undefined == -1

-----------------------------------------------------------------------------
(* mipmapReduce *)

CeilHalf(n) == (n + 1) \div 2
FloorHalf(n) == n \div 2

RECURSIVE minFiniteFrom(_, _, _)
minFiniteFrom(argv, i, r) ==
  IF i > Len(argv) THEN r
  ELSE minFiniteFrom(argv, i + 1, IF Lt(argv[i], r) THEN argv[i] ELSE r)

\* minFinite written with Math.min, which returns NaN as soon as one argument is NaN
minFiniteMathMin(argv) ==
  IF \E i \in 1..Len(argv) : argv[i] = NaN THEN NaN ELSE minFiniteFrom(argv, 1, PosInf)

minFinite(argv) == minFiniteFrom(argv, 1, PosInf)

RECURSIVE maxFiniteFrom(_, _, _)
maxFiniteFrom(argv, i, r) ==
  IF i > Len(argv) THEN r
  ELSE maxFiniteFrom(argv, i + 1, IF Lt(r, argv[i]) THEN argv[i] ELSE r)

maxFinite(argv) == maxFiniteFrom(argv, 1, NegInf)

\* reduceWith(data, reduce): which is "min" or "max".  The four regions are the
\* main double loop, the odd last column, the odd last row and the odd corner;
\* a cell no loop writes keeps the Float32Array's initial 0.
reduceCell(data, w, h, which, x, y) ==
  LET outWidth == CeilHalf(w)
      outHeight == CeilHalf(h)
      reduce(argv) == IF which = "min" THEN minFinite(argv) ELSE maxFinite(argv)
  IN  IF y < FloorHalf(h) /\ x < FloorHalf(w)
        THEN reduce(<< data[(y * 2 + 0) * w + (x * 2 + 0)], data[(y * 2 + 0) * w + (x * 2 + 1)],
                       data[(y * 2 + 1) * w + (x * 2 + 0)], data[(y * 2 + 1) * w + (x * 2 + 1)] >>)
      ELSE IF y < FloorHalf(h) /\ x = FloorHalf(w) /\ x < outWidth
        THEN reduce(<< data[(y * 2 + 0) * w + (x * 2 + 0)],
                       data[(y * 2 + 1) * w + (x * 2 + 0)] >>)
      ELSE IF y = FloorHalf(h) /\ y < outHeight /\ x < FloorHalf(w)
        THEN reduce(<< data[(y * 2 + 0) * w + (x * 2 + 0)], data[(y * 2 + 0) * w + (x * 2 + 1)] >>)
      ELSE IF x = FloorHalf(w) /\ x < outWidth /\ y = FloorHalf(h) /\ y < outHeight
        THEN reduce(<< data[(y * 2 + 0) * w + (x * 2 + 0)] >>)
      ELSE 0

reduceWith(data, w, h, which) ==
  LET outWidth == CeilHalf(w)
      outHeight == CeilHalf(h)
  IN  [i \in 0..(outWidth * outHeight - 1) |->
         reduceCell(data, w, h, which, i % outWidth, i \div outWidth)]

mipmapReduce(lev) ==
  [min |-> reduceWith(lev.min, lev.width, lev.height, "min"),
   max |-> reduceWith(lev.max, lev.width, lev.height, "max"),
   width |-> CeilHalf(lev.width),
   height |-> CeilHalf(lev.height),
   scale |-> lev.scale * 2]

\* the constructor's while loop: unshift reduced levels until the head is 1x1
RECURSIVE unshiftLevels(_)
unshiftLevels(lv) ==
  IF lv[1].width > 1 \/ lv[1].height > 1
    THEN unshiftLevels(<<mipmapReduce(lv[1])>> \o lv)
    ELSE lv

constructor(r, w, h) ==
  unshiftLevels(<< [min |-> r, max |-> r, width |-> w, height |-> h, scale |-> 1] >>)

-----------------------------------------------------------------------------
(* evaluateContour *)

\* maxMipmapLevel = maxMipmapLevel || this.levels.length
effectiveMax(lv, maxMipmapLevel) ==
  IF maxMipmapLevel = Undefined \/ maxMipmapLevel = 0 THEN Len(lv) ELSE maxMipmapLevel

evaluate(lv, contourLevel, mm, l, x, y) ==
  LET ml == lv[l + 1]
      i == ml.width * y + x
  IN  IF x >= ml.width \/ y >= ml.height \/ ~isFinite(ml.min[i]) \/ ~isFinite(ml.max[i])
        THEN OUTSIDE
      ELSE IF Ge(ml.min[i], contourLevel) THEN ABOVE
      ELSE IF Lt(ml.max[i], contourLevel) THEN BELOW
      ELSE IF l >= mm THEN ABOVE
      ELSE WITHIN

\* the addLine and addNode callbacks, as the events they leave behind
addLine(l, x1, y1, x2, y2) ==
  << [kind |-> "line", l |-> l, x1 |-> x1, y1 |-> y1, x2 |-> x2, y2 |-> y2] >>

addNode(l, x, y, e) == << [kind |-> "node", l |-> l, x |-> x, y |-> y, e |-> e] >>

\* edgeH with the same point order in both ABOVE/BELOW cases
RECURSIVE edgeHSameOrder(_, _, _, _, _, _)
edgeHSameOrder(lv, c, mm, l, x, y) ==
  LET e1 == evaluate(lv, c, mm, l, x, y)
      e2 == evaluate(lv, c, mm, l, x + 1, y)
  IN  IF e1 = ABOVE /\ e2 = BELOW THEN addLine(l, x + 1, y + 1, x + 1, y)
      ELSE IF e2 = ABOVE /\ e1 = BELOW THEN addLine(l, x + 1, y + 1, x + 1, y)
      ELSE IF e1 = WITHIN \/ e2 = WITHIN
        THEN edgeHSameOrder(lv, c, mm, l + 1, x * 2 + 1, y * 2 + 0)
             \o edgeHSameOrder(lv, c, mm, l + 1, x * 2 + 1, y * 2 + 1)
      ELSE << >>

RECURSIVE edgeH(_, _, _, _, _, _)
edgeH(lv, c, mm, l, x, y) ==
  LET e1 == evaluate(lv, c, mm, l, x, y)
      e2 == evaluate(lv, c, mm, l, x + 1, y)
  IN  IF e1 = ABOVE /\ e2 = BELOW THEN addLine(l, x + 1, y + 1, x + 1, y)
      ELSE IF e2 = ABOVE /\ e1 = BELOW THEN addLine(l, x + 1, y, x + 1, y + 1)
      ELSE IF e1 = WITHIN \/ e2 = WITHIN
        THEN edgeH(lv, c, mm, l + 1, x * 2 + 1, y * 2 + 0)
             \o edgeH(lv, c, mm, l + 1, x * 2 + 1, y * 2 + 1)
      ELSE << >>

RECURSIVE edgeV(_, _, _, _, _, _)
edgeV(lv, c, mm, l, x, y) ==
  LET e1 == evaluate(lv, c, mm, l, x, y)
      e2 == evaluate(lv, c, mm, l, x, y + 1)
  IN  IF e1 = ABOVE /\ e2 = BELOW THEN addLine(l, x, y + 1, x + 1, y + 1)
      ELSE IF e2 = ABOVE /\ e1 = BELOW THEN addLine(l, x + 1, y + 1, x, y + 1)
      ELSE IF e1 = WITHIN \/ e2 = WITHIN
        THEN edgeV(lv, c, mm, l + 1, x * 2 + 0, y * 2 + 1)
             \o edgeV(lv, c, mm, l + 1, x * 2 + 1, y * 2 + 1)
      ELSE << >>

\* node visiting the left pair's vertical edge twice and the right pair's never
RECURSIVE nodeLeftEdgeTwice(_, _, _, _, _, _)
nodeLeftEdgeTwice(lv, c, mm, l, x, y) ==
  LET e == evaluate(lv, c, mm, l, x, y)
  IN  IF e = WITHIN
        THEN nodeLeftEdgeTwice(lv, c, mm, l + 1, x * 2 + 0, y * 2 + 0)
             \o nodeLeftEdgeTwice(lv, c, mm, l + 1, x * 2 + 1, y * 2 + 0)
             \o nodeLeftEdgeTwice(lv, c, mm, l + 1, x * 2 + 0, y * 2 + 1)
             \o nodeLeftEdgeTwice(lv, c, mm, l + 1, x * 2 + 1, y * 2 + 1)
             \o edgeH(lv, c, mm, l + 1, x * 2 + 0, y * 2 + 0)
             \o edgeV(lv, c, mm, l + 1, x * 2 + 0, y * 2 + 0)
             \o edgeH(lv, c, mm, l + 1, x * 2 + 0, y * 2 + 1)
             \o edgeV(lv, c, mm, l + 1, x * 2 + 0, y * 2 + 0)
        ELSE addNode(l, x, y, e)

RECURSIVE node(_, _, _, _, _, _)
node(lv, c, mm, l, x, y) ==
  LET e == evaluate(lv, c, mm, l, x, y)
  IN  IF e = WITHIN
        THEN node(lv, c, mm, l + 1, x * 2 + 0, y * 2 + 0)
             \o node(lv, c, mm, l + 1, x * 2 + 1, y * 2 + 0)
             \o node(lv, c, mm, l + 1, x * 2 + 0, y * 2 + 1)
             \o node(lv, c, mm, l + 1, x * 2 + 1, y * 2 + 1)
             \o edgeH(lv, c, mm, l + 1, x * 2 + 0, y * 2 + 0)
             \o edgeV(lv, c, mm, l + 1, x * 2 + 0, y * 2 + 0)
             \o edgeH(lv, c, mm, l + 1, x * 2 + 0, y * 2 + 1)
             \o edgeV(lv, c, mm, l + 1, x * 2 + 1, y * 2 + 0)
        ELSE addNode(l, x, y, e)

\* evaluateContour(contourLevel, { maxMipmapLevel }, addLine, addNode)
evaluateContour(lv, contourLevel, maxMipmapLevel) ==
  node(lv, contourLevel, effectiveMax(lv, maxMipmapLevel), 0, 0, 0)

isLine(ev) == ev.kind = "line"

-----------------------------------------------------------------------------
(* contour: collecting and sorting the segments *)

\* An arbitrary function to use a 2D point as a Map key
key(a) == a[1] + a[2] * 65536

\* the addLine callback of contour(): scale to finest-grid units
segmentOf(lv, ev) ==
  LET scale == lv[ev.l + 1].scale
  IN  [start |-> << scale * ev.x1, scale * ev.y1 >>, end |-> << scale * ev.x2, scale * ev.y2 >>]

collectSegments(lv, contourLevel, maxMipmapLevel) ==
  LET ls == SelectSeq(evaluateContour(lv, contourLevel, maxMipmapLevel), isLine)
  IN  [i \in 1..Len(ls) |-> segmentOf(lv, ls[i])]

\* Array.prototype.sort with the comparator key(a.start) - key(b.start); the
\* sort is stable (ECMAScript 2019), so equal keys keep their emission order
RECURSIVE insertSorted(_, _)
insertSorted(sorted, s) ==
  IF sorted = << >> THEN << s >>
  ELSE IF key(sorted[Len(sorted)].start) - key(s.start) > 0
    THEN insertSorted(SubSeq(sorted, 1, Len(sorted) - 1), s) \o << sorted[Len(sorted)] >>
    ELSE sorted \o << s >>

RECURSIVE sortSegments(_)
sortSegments(segs) ==
  IF segs = << >> THEN << >>
  ELSE insertSorted(sortSegments(SubSeq(segs, 1, Len(segs) - 1)), segs[Len(segs)])

-----------------------------------------------------------------------------
(* contour: the fragment maps.  A Map is the sequence of its <<key, value>>  *)
(* entries in insertion order; 0 stands for "no entry".                     *)

RECURSIVE mapGet(_, _)
mapGet(m, k) ==
  IF m = << >> THEN 0
  ELSE IF m[1][1] = k THEN m[1][2]
  ELSE mapGet(Tail(m), k)

mapHas(m, k) == \E i \in 1..Len(m) : m[i][1] = k

mapDelete(m, k) == SelectSeq(m, LAMBDA en : en[1] # k)

mapSet(m, k, v) ==
  IF mapHas(m, k) THEN [i \in 1..Len(m) |-> IF m[i][1] = k THEN << k, v >> ELSE m[i]]
  ELSE m \o << << k, v >> >>

mapSize(m) == Len(m)

mapValues(m) == [i \in 1..Len(m) |-> m[i][2]]

\* the maps and the ring list kept from one call to the next
newStitchKept ==
  [heap |-> heap, fragmentStart |-> fragmentStart, fragmentEnd |-> fragmentEnd, rings |-> rings]

\* const fragmentStart = new Map(); const fragmentEnd = new Map(); const rings = []
newStitch == [heap |-> << >>, fragmentStart |-> << >>, fragmentEnd |-> << >>, rings |-> << >>]

\* the body of segments.forEach: st holds the fragment arrays (heap, by
\* identity 1..Len), the two maps and the ring list
stitchSegment(st, seg) ==
  LET start == seg.start
      end == seg.end
      a == mapGet(st.fragmentEnd, key(start))
      b == mapGet(st.fragmentStart, key(end))
  IN  IF a # 0 /\ b # 0 THEN
        LET fe == mapDelete(st.fragmentEnd, key(start))
            fs == mapDelete(st.fragmentStart, key(end))
        IN  IF a = b THEN
              \* Close a ring
              [heap |-> [st.heap EXCEPT ![a] = Append(@, end)],
               fragmentStart |-> fs, fragmentEnd |-> fe,
               rings |-> Append(st.rings, a)]
            ELSE
              \* Join two lines together
              LET c == st.heap[a] \o st.heap[b]
                  id == Len(st.heap) + 1
              IN  [heap |-> Append(st.heap, c),
                   fragmentStart |-> mapSet(fs, key(c[1]), id),
                   fragmentEnd |-> mapSet(fe, key(c[Len(c)]), id),
                   rings |-> st.rings]
      ELSE IF a # 0 THEN
        \* Extend an existing line from the end
        [heap |-> [st.heap EXCEPT ![a] = Append(@, end)],
         fragmentStart |-> st.fragmentStart,
         fragmentEnd |-> mapSet(mapDelete(st.fragmentEnd, key(start)), key(end), a),
         rings |-> st.rings]
      ELSE IF b # 0 THEN
        \* Extend an existing line from the start
        [heap |-> [st.heap EXCEPT ![b] = << start >> \o @],
         fragmentStart |-> mapSet(mapDelete(st.fragmentStart, key(end)), key(start), b),
         fragmentEnd |-> st.fragmentEnd,
         rings |-> st.rings]
      ELSE
        \* New line doesn't connect to any existing line
        LET id == Len(st.heap) + 1
        IN  [heap |-> Append(st.heap, << start, end >>),
             fragmentStart |-> mapSet(st.fragmentStart, key(start), id),
             fragmentEnd |-> mapSet(st.fragmentEnd, key(end), id),
             rings |-> st.rings]

\* [...rings, ...fragmentStart.values()], as fragment identities
stitched(rs, fs) == rs \o mapValues(fs)

\* .filter(l => l.length >= minPoints && l.length >= smoothKernelWidth * 2)
keepLine(l, minPoints, smoothKernelWidth) ==
  Len(l) >= minPoints /\ Len(l) >= smoothKernelWidth * 2

-----------------------------------------------------------------------------
(* smooth.  After c cycles a coordinate v of the code is held as the integer *)
(* v * (2 * kernelWidth)^c, so that a cycle's  px * sc  is the running sum   *)
(* px itself over a denominator one factor larger.                          *)

padd(p, q) == << p[1] + q[1], p[2] + q[2] >>
psub(p, q) == << p[1] - q[1], p[2] - q[2] >>

\* const isLoop = line[0][0] === line[line.length - 1][0] && line[0][1] === ...
isLoopOf(line) == line[1][1] = line[Len(line)][1] /\ line[1][2] = line[Len(line)][2]

Min2(a, b) == IF a < b THEN a ELSE b
Max2(a, b) == IF a > b THEN a ELSE b

\* pointAt(i), i a JavaScript (0-based) index
pointAt(line, isLoop, i) ==
  IF isLoop THEN line[((i + Len(line)) % Len(line)) + 1]
  ELSE line[Min2(Max2(i, 0), Len(line) - 1) + 1]

RECURSIVE sumPoints(_, _, _)
sumPoints(line, from, to) ==
  IF from >= to THEN << 0, 0 >>
  ELSE padd(line[from + 1], sumPoints(line, from + 1, to))

\* the value of (px, py) before the main loop of a cycle
windowStart(line, isLoop, kernelWidth) ==
  padd(IF isLoop THEN sumPoints(line, Len(line) - kernelWidth, Len(line))
       ELSE << line[1][1] * kernelWidth, line[1][2] * kernelWidth >>,
       sumPoints(line, 0, kernelWidth))

\* the main loop of a cycle: res[i] = [px * sc, py * sc], then slide the window
RECURSIVE slide(_, _, _, _, _, _)
slide(line, isLoop, kernelWidth, i, p, res) ==
  IF i >= Len(line) THEN res
  ELSE slide(line, isLoop, kernelWidth, i + 1,
             padd(p, psub(pointAt(line, isLoop, i + kernelWidth),
                          pointAt(line, isLoop, i - kernelWidth))),
             Append(res, p))

\* a cycle that does not close the loop again
keepClosedNot(res, isLoop) == res

\* if (isLoop) res[res.length - 1] = res[0].slice()
keepClosed(res, isLoop) == IF isLoop THEN [res EXCEPT ![Len(res)] = res[1]] ELSE res

\* one iteration of  for (cycle ...)  in smooth
smoothCycle(line, isLoop, kernelWidth) ==
  keepClosed(slide(line, isLoop, kernelWidth, 0,
                   windowStart(line, isLoop, kernelWidth), << >>), isLoop)

-----------------------------------------------------------------------------
(* The object and its callers *)

NoArgs == [op |-> "none", level |-> 0, maxMipmapLevel |-> Undefined,
           smoothKernelWidth |-> 0, smoothCycles |-> 0, minPoints |-> 0]

NoMemo == [args |-> NoArgs, result |-> << >>, others |-> FALSE]

Thresholds == 1..MaxSample
MaxLevelOpts == {Undefined} \cup 0..MaxDepthOpt
Kernels == 1..MaxKernel
Cycles == 0..MaxCycles

Pow2(k) == IF k = 0 THEN 1 ELSE IF k = 1 THEN 2 ELSE IF k = 2 THEN 4 ELSE IF k = 3 THEN 8 ELSE 16

InitRest ==
  /\ pc = "new"
  /\ levels = << >>
  /\ args = NoArgs
  /\ events = << >>
  /\ segments = << >>
  /\ idx = 0
  /\ heap = << >>
  /\ fragmentStart = << >>
  /\ fragmentEnd = << >>
  /\ rings = << >>
  /\ lines = << >>
  /\ closed = << >>
  /\ loops = << >>
  /\ cycle = 0
  /\ memo = NoMemo

\* any raster of up to MaxSide x MaxSide samples, NaN allowed
Init ==
  /\ width \in 1..MaxSide
  /\ height \in 1..MaxSide
  /\ raster \in [0..(width * height - 1) -> Samples \cup {NaN}]
  /\ InitRest

\* square rasters of power-of-two side, no NaN
InitSquare ==
  /\ \E k \in 0..MaxLog : width = Pow2(k) /\ height = Pow2(k)
  /\ raster \in [0..(width * height - 1) -> Samples]
  /\ InitRest

contourVars == << segments, idx, heap, fragmentStart, fragmentEnd, rings, lines, closed,
                  loops, cycle >>

\* new ContourMipmap(raster, width, height)
Construct ==
  /\ pc = "new"
  /\ levels' = constructor(raster, width, height)
  /\ pc' = "ready"
  /\ UNCHANGED << raster, width, height, args, events, contourVars, memo >>

\* what a query leaves of the object: nothing in evaluateContour or contour
\* assigns to this.levels or to the arrays it holds
queryFrame == UNCHANGED << levels, raster, width, height >>

\* mipmap.evaluateContour(contourLevel, { maxMipmapLevel }, addLine, addNode)
EvaluateContour(contourLevel, maxMipmapLevel) ==
  /\ pc = "ready"
  /\ events' = evaluateContour(levels, contourLevel, maxMipmapLevel)
  /\ args' = [NoArgs EXCEPT !.op = "evaluateContour", !.level = contourLevel,
                            !.maxMipmapLevel = maxMipmapLevel]
  /\ queryFrame
  /\ UNCHANGED << pc, contourVars, memo >>

\* mipmap.contour(level, opts), up to the start of segments.forEach; sorted is
\* the segment list after segments.sort
ContourWith(sorted, level, maxMipmapLevel, smoothKernelWidth, smoothCycles, minPoints) ==
  /\ pc = "ready"
  /\ args' = [op |-> "contour", level |-> level, maxMipmapLevel |-> maxMipmapLevel,
              smoothKernelWidth |-> smoothKernelWidth, smoothCycles |-> smoothCycles,
              minPoints |-> minPoints]
  /\ segments' = sorted
  /\ idx' = 0
  /\ heap' = newStitch.heap
  /\ fragmentStart' = newStitch.fragmentStart
  /\ fragmentEnd' = newStitch.fragmentEnd
  /\ rings' = newStitch.rings
  /\ lines' = << >>
  /\ closed' = << >>
  /\ loops' = << >>
  /\ cycle' = 0
  /\ pc' = "stitch"
  /\ queryFrame
  /\ UNCHANGED << events, memo >>

\* a call of contour with any of the given options; the segment list depends
\* on level and maxMipmapLevel only
CallContour(levelOpts, maxLevelOpts, kernelOpts, cycleOpts, minPointsOpts) ==
  \E level \in levelOpts, maxMipmapLevel \in maxLevelOpts :
    LET sorted == sortSegments(collectSegments(levels, level, maxMipmapLevel))
    IN  \E k \in kernelOpts, c \in cycleOpts, mp \in minPointsOpts :
          ContourWith(sorted, level, maxMipmapLevel, k, c, mp)

\* one iteration of segments.forEach
StitchStep ==
  /\ pc = "stitch"
  /\ idx < Len(segments)
  /\ LET st == stitchSegment([heap |-> heap, fragmentStart |-> fragmentStart,
                              fragmentEnd |-> fragmentEnd, rings |-> rings],
                             segments[idx + 1])
     IN  /\ heap' = st.heap
         /\ fragmentStart' = st.fragmentStart
         /\ fragmentEnd' = st.fragmentEnd
         /\ rings' = st.rings
  /\ idx' = idx + 1
  /\ queryFrame
  /\ UNCHANGED << pc, args, events, segments, lines, closed, loops, cycle, memo >>

\* [...rings, ...fragmentStart.values()].filter(...), and the entry of smooth
\* for each line kept
FilterLines ==
  /\ pc = "stitch"
  /\ idx = Len(segments)
  /\ LET all == stitched(rings, fragmentStart)
         kept == SelectSeq([i \in 1..Len(all) |-> i],
                           LAMBDA i : keepLine(heap[all[i]], args.minPoints,
                                               args.smoothKernelWidth))
     IN  /\ lines' = [j \in 1..Len(kept) |-> heap[all[kept[j]]]]
         /\ closed' = [j \in 1..Len(kept) |-> kept[j] <= Len(rings)]
         /\ loops' = [j \in 1..Len(kept) |-> isLoopOf(heap[all[kept[j]]])]
  /\ cycle' = 0
  /\ pc' = "smooth"
  /\ queryFrame
  /\ UNCHANGED << args, events, segments, idx, heap, fragmentStart, fragmentEnd, rings, memo >>

\* one smoothing cycle of every kept line (lines are smoothed independently)
SmoothCycle ==
  /\ pc = "smooth"
  /\ cycle < args.smoothCycles
  /\ lines' = [j \in 1..Len(lines) |-> smoothCycle(lines[j], loops[j], args.smoothKernelWidth)]
  /\ cycle' = cycle + 1
  /\ queryFrame
  /\ UNCHANGED << pc, args, events, segments, idx, heap, fragmentStart, fragmentEnd, rings,
                  closed, loops, memo >>

ReturnStep ==
  /\ pc = "smooth"
  /\ cycle = args.smoothCycles
  /\ pc' = "ready"
  /\ queryFrame
  /\ UNCHANGED << args, events, contourVars >>

\* contour returns
Return == ReturnStep /\ UNCHANGED memo

\* contour returns to a caller that keeps the first result it got
ReturnAndRemember ==
  /\ ReturnStep
  /\ memo' = IF memo = NoMemo THEN [args |-> args, result |-> lines, others |-> FALSE]
             ELSE IF args # memo.args THEN [memo EXCEPT !.others = TRUE]
             ELSE memo

NextPyramid == Construct

\* the callers below build the pyramid and make one query
firstCall == args = NoArgs

NextWalk ==
  \/ Construct
  \/ \E t \in Thresholds, m \in MaxLevelOpts : firstCall /\ EvaluateContour(t, m)

NextQuad ==
  \/ Construct
  \/ \E t \in Thresholds : firstCall /\ EvaluateContour(t, Undefined)

MinPointsOpts == {0, MaxMinPoints}

NextContour ==
  \/ Construct
  \/ firstCall /\ CallContour(Thresholds, {Undefined}, Kernels, Cycles, MinPointsOpts)
  \/ StitchStep
  \/ FilterLines
  \/ SmoothCycle
  \/ Return

\* contour(level) with its default options, up to the end of stitching
NextStitch ==
  \/ Construct
  \/ firstCall /\ CallContour(Thresholds, {Undefined}, {2}, {2}, {0})
  \/ StitchStep

\* a caller that queries the same pyramid again and again, with the default
\* smoothing options
NextReuse ==
  \/ Construct
  \/ \E t \in Thresholds : EvaluateContour(t, Undefined)
  \/ CallContour(Thresholds, {Undefined, 1}, {2}, {2}, {0})
  \/ StitchStep
  \/ FilterLines
  \/ SmoothCycle
  \/ ReturnAndRemember

\* square rasters of side 2^MaxLog that are 0 outside their central 2x2 block
InitPeaks ==
  /\ width = Pow2(MaxLog)
  /\ height = Pow2(MaxLog)
  /\ \E block \in [(0..1) \X (0..1) -> Samples] :
       raster = [i \in 0..(width * height - 1) |->
                   LET x == i % width
                       y == i \div width
                       h == width \div 2
                   IN  IF x \in {h - 1, h} /\ y \in {h - 1, h}
                         THEN block[<< x - (h - 1), y - (h - 1) >>]
                         ELSE 0]
  /\ InitRest

SpecPyramid == Init /\ [][NextPyramid]_vars
SpecWalk == Init /\ [][NextWalk]_vars
SpecQuad == InitSquare /\ [][NextQuad]_vars
SpecContour == InitPeaks /\ [][NextContour]_vars
SpecStitch == Init /\ [][NextStitch]_vars
SpecReuse == InitPeaks /\ [][NextReuse]_vars

-----------------------------------------------------------------------------
(* Vocabulary of the properties *)

sample(x, y) == raster[y * width + x]

finest == Len(levels) - 1

walked == pc = "ready" /\ args.op = "evaluateContour"

lineEvents == SelectSeq(events, isLine)

\* the level-l cells on the two sides of a line event: the left side of the
\* direction (dx, dy), as drawn with y growing downward, is (dy, -dx)
leftCell(ev) ==
  << ((ev.x1 + ev.x2) + (ev.y2 - ev.y1) - 1) \div 2,
     ((ev.y1 + ev.y2) - (ev.x2 - ev.x1) - 1) \div 2 >>

rightCell(ev) ==
  << ((ev.x1 + ev.x2) - (ev.y2 - ev.y1) - 1) \div 2,
     ((ev.y1 + ev.y2) + (ev.x2 - ev.x1) - 1) \div 2 >>

classOf(l, cell) ==
  evaluate(levels, args.level, effectiveMax(levels, args.maxMipmapLevel), l, cell[1], cell[2])

\* unit edges of the finest grid: <<"h", x, y>> joins (x, y) and (x+1, y),
\* <<"v", x, y>> joins (x, y) and (x, y+1)
unitEdges(seg) ==
  IF seg.start[2] = seg.end[2]
    THEN { << "h", x, seg.start[2] >> :
             x \in Min2(seg.start[1], seg.end[1])..(Max2(seg.start[1], seg.end[1]) - 1) }
    ELSE { << "v", seg.start[1], y >> :
             y \in Min2(seg.start[2], seg.end[2])..(Max2(seg.start[2], seg.end[2]) - 1) }

scaledLines == [i \in 1..Len(lineEvents) |-> segmentOf(levels, lineEvents[i])]

coveredBy(sl) == UNION { unitEdges(sl[i]) : i \in 1..Len(sl) }

RECURSIVE coveredCount(_, _)
coveredCount(sl, i) ==
  IF i = 0 THEN 0 ELSE Cardinality(unitEdges(sl[i])) + coveredCount(sl, i - 1)

isAbove(x, y) == Ge(sample(x, y), args.level)

\* unit edges between two 4-adjacent pixels on opposite sides of the threshold
crossings ==
  { e \in {"v"} \X (1..(width - 1)) \X (0..(height - 1)) :
      isAbove(e[2] - 1, e[3]) # isAbove(e[2], e[3]) }
  \cup
  { e \in {"h"} \X (0..(width - 1)) \X (1..(height - 1)) :
      isAbove(e[2], e[3] - 1) # isAbove(e[2], e[3]) }

nanRows == { y \in 0..(height - 1) : \A x \in 0..(width - 1) : sample(x, y) = NaN }

\* the sides of the pixels of row y
rowSides(y) ==
  { << "h", x, yy >> : x \in 0..(width - 1), yy \in {y, y + 1} }
  \cup { << "v", x, y >> : x \in 0..width }

-----------------------------------------------------------------------------
(* C4 *)

\* C4: every segment emitted by evaluateContour at level l has the level-l
\* cell on its left (as drawn, y downward) classified ABOVE and the cell on
\* its right classified BELOW.
C4_AboveOnLeft ==
  walked =>
    LET ls == lineEvents
    IN  \A i \in 1..Len(ls) :
          /\ classOf(ls[i].l, leftCell(ls[i])) = ABOVE
          /\ classOf(ls[i].l, rightCell(ls[i])) = BELOW

C4_Witness ==
  /\ walked
  /\ \E i, j \in 1..Len(lineEvents) :
       /\ lineEvents[i].x1 = lineEvents[i].x2 /\ lineEvents[i].y2 < lineEvents[i].y1
       /\ lineEvents[j].x1 = lineEvents[j].x2 /\ lineEvents[j].y2 > lineEvents[j].y1
  /\ \E i, j \in 1..Len(lineEvents) :
       /\ lineEvents[i].y1 = lineEvents[i].y2 /\ lineEvents[i].x2 < lineEvents[i].x1
       /\ lineEvents[j].y1 = lineEvents[j].y2 /\ lineEvents[j].x2 > lineEvents[j].x1

-----------------------------------------------------------------------------
(* C2 *)

\* C2: with a row of NaN samples in the raster, no emitted segment, scaled to
\* finest-grid units, covers a side of a pixel of that row.
C2_NoSegmentAlongNaNRow ==
  walked =>
    LET cov == coveredBy(scaledLines)
    IN  \A y \in nanRows : cov \cap rowSides(y) = {}

-----------------------------------------------------------------------------
(* C5 *)

\* C5: for a non-negative maxMipmapLevel m, 0 included, no callback reports a
\* level greater than min(m, finest level) and no cell at a level >= m
\* classifies WITHIN.
C5_DepthBounded ==
  (walked /\ args.maxMipmapLevel # Undefined) =>
    /\ \A i \in 1..Len(events) : events[i].l <= Min2(args.maxMipmapLevel, finest)
    /\ \A l \in 0..finest :
         l >= args.maxMipmapLevel =>
           \A x \in 0..(levels[l + 1].width - 1), y \in 0..(levels[l + 1].height - 1) :
             classOf(l, << x, y >>) # WITHIN

-----------------------------------------------------------------------------
(* C8 *)

\* C8: on a square power-of-two raster without NaN and with the default
\* maxMipmapLevel, the emitted segments cover exactly the unit edges between
\* 4-adjacent pixels on opposite sides of the threshold, each exactly once.
C8_EachCrossingOnce ==
  (walked /\ args.maxMipmapLevel = Undefined) =>
    LET sl == scaledLines
        cov == coveredBy(sl)
    IN  /\ cov = crossings
        /\ coveredCount(sl, Len(sl)) = Cardinality(cov)

-----------------------------------------------------------------------------
(* C10 *)

\* C10: both endpoints of every emitted segment, scaled to finest-grid units,
\* lie in the raster extent 0 <= x <= width, 0 <= y <= height.
C10_InsideExtent ==
  walked =>
    LET sl == scaledLines
    IN  \A i \in 1..Len(sl) :
          /\ sl[i].start[1] \in 0..width /\ sl[i].start[2] \in 0..height
          /\ sl[i].end[1] \in 0..width /\ sl[i].end[2] \in 0..height

-----------------------------------------------------------------------------
(* C6 *)

setMin(S) == IF S = {} THEN PosInf ELSE CHOOSE m \in S : \A v \in S : m <= v
setMax(S) == IF S = {} THEN NegInf ELSE CHOOSE m \in S : \A v \in S : m >= v

\* the cells of level l + 1 beneath cell (x, y) of level l that exist
children(l, x, y) ==
  { c \in {2 * x, 2 * x + 1} \X {2 * y, 2 * y + 1} :
      c[1] < levels[l + 2].width /\ c[2] < levels[l + 2].height }

\* the non-NaN samples of the raster under cell (x, y) of level l
footprint(l, x, y) ==
  { sample(px, py) : px \in { p \in 0..(width - 1) : p \div levels[l + 1].scale = x },
                     py \in { p \in 0..(height - 1) : p \div levels[l + 1].scale = y } } \ {NaN}

cellsOf(l) == (0..(levels[l + 1].width - 1)) \X (0..(levels[l + 1].height - 1))

cellMin(l, c) == levels[l + 1].min[levels[l + 1].width * c[2] + c[1]]
cellMax(l, c) == levels[l + 1].max[levels[l + 1].width * c[2] + c[1]]

\* C6: after construction every cell of every level has min and max equal to
\* the aggregate of its existing children, hence to the least and greatest
\* non-NaN sample of its footprint; min <= max when both are finite, and the
\* cell is non-finite exactly when its footprint has no non-NaN sample.
C6_PyramidAggregates ==
  pc # "new" =>
    /\ levels[1].width = 1 /\ levels[1].height = 1
    /\ levels[Len(levels)].width = width /\ levels[Len(levels)].height = height
    /\ \A l \in 0..finest : \A c \in cellsOf(l) :
         /\ l < finest =>
              /\ DOMAIN levels[l + 1].min = 0..(levels[l + 1].width * levels[l + 1].height - 1)
              /\ cellMin(l, c)
                   = setMin({ cellMin(l + 1, d) : d \in children(l, c[1], c[2]) } \ {NaN, PosInf})
              /\ cellMax(l, c)
                   = setMax({ cellMax(l + 1, d) : d \in children(l, c[1], c[2]) } \ {NaN, NegInf})
              /\ cellMin(l, c) = setMin(footprint(l, c[1], c[2]))
              /\ cellMax(l, c) = setMax(footprint(l, c[1], c[2]))
              /\ (isFinite(cellMin(l, c)) /\ isFinite(cellMax(l, c))) => cellMin(l, c) <= cellMax(l, c)
         /\ (~isFinite(cellMin(l, c))) <=> (footprint(l, c[1], c[2]) = {})
         /\ (~isFinite(cellMax(l, c))) <=> (footprint(l, c[1], c[2]) = {})

\* an odd-sized raster with a no-data sample, whose pyramid has three levels
C6_Witness ==
  /\ pc = "ready"
  /\ width = 3 /\ height = 3
  /\ Len(levels) = 3
  /\ \E i \in DOMAIN raster : raster[i] = NaN
  /\ \E c \in cellsOf(1) : ~isFinite(cellMin(1, c))
  /\ \E c \in cellsOf(1) : isFinite(cellMin(1, c)) /\ cellMin(1, c) < cellMax(1, c)

C8_Witness ==
  /\ walked /\ args.maxMipmapLevel = Undefined
  /\ width = 4
  /\ \E i, j \in 1..Len(lineEvents) : lineEvents[i].l = 1 /\ lineEvents[j].l = 2

-----------------------------------------------------------------------------
(* C9 *)

Range(f) == { f[i] : i \in DOMAIN f }

\* C9: after every prefix of the segment list the two fragment maps have the
\* same size and register the same fragments, each under one key per map.
C9_MapsSameSize ==
  pc = "stitch" =>
    /\ mapSize(fragmentStart) = mapSize(fragmentEnd)
    /\ Range(mapValues(fragmentStart)) = Range(mapValues(fragmentEnd))

-----------------------------------------------------------------------------
(* C1 *)

returned == pc = "ready" /\ args.op = "contour"

pixels == (0..(width - 1)) \X (0..(height - 1))

aboveSet == { p \in pixels : Ge(sample(p[1], p[2]), args.level) }

corners(p) == { << p[1], p[2] >>, << p[1] + 1, p[2] >>, << p[1], p[2] + 1 >>,
                << p[1] + 1, p[2] + 1 >> }

\* In a 4x4 raster the pixels off the border are the central 2x2 block, so two
\* peaks that are not 4-adjacent are two single pixels on a diagonal of it.
twoPeaks ==
  /\ width = 4 /\ height = 4
  /\ \A p \in pixels : sample(p[1], p[2]) # NaN
  /\ Cardinality(aboveSet) = 2
  /\ \A p \in aboveSet : p[1] \in 1..2 /\ p[2] \in 1..2
  /\ \A p, q \in aboveSet : p = q \/ (p[1] # q[1] /\ p[2] # q[2])

isClosed(line) == line[1] = line[Len(line)]

\* C1: on a 4x4 raster with two peaks meeting at most at a corner, contour
\* returns exactly two closed rings, one around each peak.
C1_TwoRings ==
  (returned /\ twoPeaks /\ args.minPoints = 0) =>
    /\ Len(lines) = 2
    /\ \A j \in 1..Len(lines) : closed[j] /\ isClosed(lines[j])
    /\ Len(rings) = 2
    /\ \A p \in aboveSet : \E i \in 1..Len(rings) : Range(heap[rings[i]]) = corners(p)

-----------------------------------------------------------------------------
(* C3 *)

\* C3: a polyline the stitcher closed into a ring has first point = last point
\* when stitching ends, and still has after each smoothing cycle.
C3_RingsStayClosed ==
  /\ \A i \in 1..Len(rings) : isClosed(heap[rings[i]])
  /\ \A j \in 1..Len(lines) : closed[j] => isClosed(lines[j])

\* a ring of at least nine points after its second cycle with kernel width 2,
\* whose points are not all the same
C3_Witness ==
  /\ pc = "smooth" /\ cycle = 2 /\ args.smoothKernelWidth = 2
  /\ \E j \in 1..Len(lines) :
       /\ closed[j] /\ Len(lines[j]) >= 9 /\ isClosed(lines[j])
       /\ lines[j][2] # lines[j][1]
       /\ lines[j][Len(lines[j]) - 1] # lines[j][2]

-----------------------------------------------------------------------------
(* C7 *)

\* C7: no query changes the pyramid, and a contour call with the arguments of
\* an earlier call returns what that call returned, whatever ran in between.
C7_QueriesArePure ==
  /\ pc # "new" => levels = constructor(raster, width, height)
  /\ (returned /\ memo # NoMemo /\ args = memo.args) => lines = memo.result

\* the first call's arguments were used again after a call with others
C7_Witness ==
  /\ returned /\ memo.others /\ args = memo.args
  /\ lines = memo.result /\ Len(lines) = 2
  /\ events # << >>

====
